---- MODULE Spec2Model ----
(***************************************************************************)
(* A model of the C Container Collection traits interface (ccc/traits.h).  *)
(*                                                                         *)
(* traits.h is a layer of forwarding macros: every CCC_<operation> expands *)
(* to CCC_private_<operation> with the same arguments, in the same order.  *)
(* The forwarding layer is modelled operator by operator (CCC_swap_entry,  *)
(* CCC_try_insert, ...).  The container backends the macros resolve to are *)
(* declared in private/private_traits.h and the container sources, which   *)
(* are not part of the sources modelled here; the CCC_private_* operators  *)
(* below model them from the written specification of the interface: a     *)
(* keyed container holding its elements in iteration order, a capacity, a  *)
(* storage discipline fixed at construction, and the Entry result          *)
(* (Occupied / Vacant, insert-error flag) every keyed operation returns.   *)
(***************************************************************************)
EXTENDS Integers, Sequences, FiniteSets, TLC

(***************************************************************************)
(* Bounds of the model.                                                    *)
(***************************************************************************)
MaxKey == 2
MaxVal == 2
MaxReserve == 2
FixedCap == 1
MaxRangeKey == 9

Keys == 1..MaxKey
Vals == 1..MaxVal
Ids == {"a", "b"}

\* The absent indicator: the NULL a query or unwrap yields when nothing is there.
NULL == 0

VARIABLES
    cont,      \* Ids -> the container: elements in iteration order, capacity, discipline
    res,       \* the last operation: its arguments and what it handed back; covered
               \* records that it inserted a new key while a reserve still covered it
    reserved,  \* Ids -> insertions still covered by the last successful reserve
    range      \* the Range the last bounded query handed back

vars == <<cont, res, reserved, range>>

(***************************************************************************)
(* Container backend, modelled from the interface specification.           *)
(***************************************************************************)
Count(c) == Len(c.elems)

KeySet(c) == {c.elems[i].key : i \in DOMAIN c.elems}

\* Position of key k in iteration order, 0 when absent.
Find(c, k) ==
    IF k \in KeySet(c)
    THEN CHOOSE i \in DOMAIN c.elems : c.elems[i].key = k
    ELSE 0

CCC_private_contains(c, k) == Find(c, k) # 0

CCC_private_get_key_value(c, k) ==
    IF Find(c, k) = 0 THEN NULL ELSE c.elems[Find(c, k)].val

\* Where a new key goes: its sorted position in an ordered container, the
\* end of the backend's own order in an unordered one.
Slot(c, k) ==
    IF c.ordered
    THEN 1 + Cardinality({i \in DOMAIN c.elems : c.elems[i].key < k})
    ELSE Count(c) + 1

Place(c, k, v) ==
    SubSeq(c.elems, 1, Slot(c, k) - 1)
        \o <<[key |-> k, val |-> v]>>
        \o SubSeq(c.elems, Slot(c, k), Count(c))

Detach(c, k) ==
    SubSeq(c.elems, 1, Find(c, k) - 1) \o SubSeq(c.elems, Find(c, k) + 1, Count(c))

GrowCapacity(n) == IF n = 0 THEN 1 ELSE 2 * n

\* Growth that never asks whether the container holds an allocator.
CanGrow_unchecked(c, allocOk) == allocOk

\* Room for one more element: free capacity, or growth through the
\* container's own allocator, which may fail.
CanGrow(c, allocOk) == c.dynamic /\ allocOk

HasRoom(c, allocOk) == Count(c) < c.capacity \/ CanGrow(c, allocOk)

Occupied(k, v) == [occupied |-> TRUE, insert_error |-> FALSE, key |-> k, value |-> v]

Vacant(k, err) == [occupied |-> FALSE, insert_error |-> err, key |-> k, value |-> NULL]

\* The Vacant branch shared by swap, try_insert and insert_or_assign.
InsertVacant(c, k, v, allocOk) ==
    IF HasRoom(c, allocOk)
    THEN [c |-> [c EXCEPT !.elems = Place(c, k, v),
                          !.capacity = IF Count(c) < c.capacity
                                       THEN c.capacity
                                       ELSE GrowCapacity(c.capacity)],
          entry |-> Occupied(k, v),
          realloc |-> ~(Count(c) < c.capacity)]
    ELSE [c |-> c, entry |-> Vacant(k, TRUE), realloc |-> FALSE]

Assign(c, k, v) == [c EXCEPT !.elems[Find(c, k)].val = v]

CCC_private_swap_entry(c, k, v, allocOk) ==
    IF CCC_private_contains(c, k)
    THEN [c |-> Assign(c, k, v),
          entry |-> Occupied(k, CCC_private_get_key_value(c, k)),
          realloc |-> FALSE]
    ELSE InsertVacant(c, k, v, allocOk)

CCC_private_try_insert(c, k, v, allocOk) ==
    IF CCC_private_contains(c, k)
    THEN [c |-> c,
          entry |-> Occupied(k, CCC_private_get_key_value(c, k)),
          realloc |-> FALSE]
    ELSE InsertVacant(c, k, v, allocOk)

CCC_private_insert_or_assign(c, k, v, allocOk) ==
    IF CCC_private_contains(c, k)
    THEN [c |-> Assign(c, k, v), entry |-> Occupied(k, v), realloc |-> FALSE]
    ELSE InsertVacant(c, k, v, allocOk)

CCC_private_remove_key_value(c, k) ==
    IF CCC_private_contains(c, k)
    THEN [c |-> [c EXCEPT !.elems = Detach(c, k)],
          entry |-> Occupied(k, CCC_private_get_key_value(c, k)),
          realloc |-> FALSE]
    ELSE [c |-> c, entry |-> Vacant(k, FALSE), realloc |-> FALSE]

\* reserve that grows the storage one element short of the request.
CCC_private_reserve_short(c, n, alloc, allocOk) ==
    IF c.capacity - Count(c) >= n
    THEN [c |-> c, rc |-> "OK", realloc |-> FALSE]
    ELSE IF ~alloc \/ (~c.dynamic /\ c.capacity > 0)
    THEN [c |-> c, rc |-> "CAPACITY_ERROR", realloc |-> FALSE]
    ELSE IF ~allocOk
    THEN [c |-> c, rc |-> "ALLOCATION_ERROR", realloc |-> FALSE]
    ELSE [c |-> [c EXCEPT !.capacity = Count(c) + n - 1], rc |-> "OK", realloc |-> TRUE]

\* reserve(n) with the allocation function the caller passes (alloc: one was
\* passed; allocOk: it delivers), "the allocation function to use for
\* resizing if needed".  Nothing is done when the free capacity already
\* covers n more elements, and nothing can be done without a function.
\* A container over a caller's buffer has no permission to resize it and
\* reports the capacity error whatever function is passed (spec 4.5).  A
\* container that holds no storage and no permission receives its storage
\* through the function, once: it is then the "one-time memory reserved
\* container that does not otherwise have permissions over its own memory
\* to resize or free", which clear_and_free_reserve tears down.  A dynamic
\* container grows through the function.
CCC_private_reserve(c, n, alloc, allocOk) ==
    IF c.capacity - Count(c) >= n
    THEN [c |-> c, rc |-> "OK", realloc |-> FALSE]
    ELSE IF ~alloc \/ (~c.dynamic /\ c.capacity > 0)
    THEN [c |-> c, rc |-> "CAPACITY_ERROR", realloc |-> FALSE]
    ELSE IF ~allocOk
    THEN [c |-> c, rc |-> "ALLOCATION_ERROR", realloc |-> FALSE]
    ELSE [c |-> [c EXCEPT !.capacity = Count(c) + n], rc |-> "OK", realloc |-> TRUE]

\* copy as an assignment of the container record: dst then refers to the
\* backing storage of src.
CCC_private_copy_shallow(dst, src, alloc, allocOk) ==
    [c |-> src, rc |-> "OK", realloc |-> FALSE]

\* copy(dst, src, allocate): the elements of src are duplicated, in src's
\* iteration order, into the storage of dst, which dst keeps to itself.
\* That storage is reallocated only when it cannot hold them, and only for
\* a dynamic dst: a dst over a fixed buffer that is too small reports the
\* capacity error (spec 4.5, "growth-requiring operations fail with a
\* capacity error"), as does a dynamic dst when no function is passed.
CCC_private_copy(dst, src, alloc, allocOk) ==
    IF Count(src) <= dst.capacity
    THEN [c |-> [dst EXCEPT !.elems = src.elems], rc |-> "OK", realloc |-> FALSE]
    ELSE IF ~dst.dynamic \/ ~alloc
    THEN [c |-> dst, rc |-> "CAPACITY_ERROR", realloc |-> FALSE]
    ELSE IF ~allocOk
    THEN [c |-> dst, rc |-> "ALLOCATION_ERROR", realloc |-> FALSE]
    ELSE [c |-> [dst EXCEPT !.elems = src.elems, !.capacity = src.capacity],
          rc |-> "OK", realloc |-> TRUE]

\* entry(k): the Entry of a query, Occupied with the element when k is held.
CCC_private_entry(c, k) ==
    IF CCC_private_contains(c, k)
    THEN Occupied(k, CCC_private_get_key_value(c, k))
    ELSE Vacant(k, FALSE)

CCC_private_occupied(e) == e.occupied

CCC_private_insert_error(e) == e.insert_error

\* The live element when Occupied, the absent indicator when Vacant.
CCC_private_unwrap(e) == IF e.occupied THEN e.value ELSE NULL

\* Cursors are positions in iteration order.  The forward end sentinel lies
\* one past the last element, the reverse end sentinel one before the first.
CCC_private_end(c) == Count(c) + 1

CCC_private_begin(c) == IF Count(c) = 0 THEN CCC_private_end(c) ELSE 1

CCC_private_reverse_end(c) == 0

CCC_private_next(c, i) == i + 1

CCC_private_reverse_next(c, i) == i - 1

\* The first position at or after i whose key is not less than k (strict:
\* greater than k), the end sentinel when there is none.
RECURSIVE ScanUp(_, _, _, _)
ScanUp(c, i, k, strict) ==
    IF i > Count(c)
    THEN CCC_private_end(c)
    ELSE IF (IF strict THEN c.elems[i].key > k ELSE c.elems[i].key >= k)
    THEN i
    ELSE ScanUp(c, CCC_private_next(c, i), k, strict)

\* The last position at or before i whose key is not greater than k (strict:
\* less than k), the reverse end sentinel when there is none.
RECURSIVE ScanDown(_, _, _, _)
ScanDown(c, i, k, strict) ==
    IF i < 1
    THEN CCC_private_reverse_end(c)
    ELSE IF (IF strict THEN c.elems[i].key < k ELSE c.elems[i].key <= k)
    THEN i
    ELSE ScanDown(c, CCC_private_reverse_next(c, i), k, strict)

\* equal_range(lo, hi): from the first element not less than lo up to, and
\* excluding, the first element greater than hi.
CCC_private_equal_range(c, lo, hi) ==
    [begin |-> ScanUp(c, 1, lo, FALSE), end |-> ScanUp(c, 1, hi, TRUE)]

\* equal_range_reverse(lo, hi): the same elements backward, from the last
\* element not greater than hi down to, and excluding, the last one less than lo.
CCC_private_equal_range_reverse(c, lo, hi) ==
    [begin |-> ScanDown(c, Count(c), hi, FALSE), end |-> ScanDown(c, Count(c), lo, TRUE)]

(***************************************************************************)
(* The traits layer: each macro forwards to its private counterpart.       *)
(***************************************************************************)
\* Faulty expansions of the forwarding macros, each naming the private
\* operation of a neighbouring macro or passing its arguments in the wrong
\* order.  The properties below are checked to tell them from the real ones.
CCC_swap_entry_as_try_insert(c, k, v, allocOk) == CCC_private_try_insert(c, k, v, allocOk)

CCC_try_insert_as_insert_or_assign(c, k, v, allocOk) ==
    CCC_private_insert_or_assign(c, k, v, allocOk)

CCC_insert_or_assign_as_remove_key_value(c, k, v, allocOk) ==
    CCC_private_remove_key_value(c, k)

CCC_remove_key_value_as_entry(c, k) ==
    [c |-> c, entry |-> CCC_private_entry(c, k), realloc |-> FALSE]

CCC_occupied_as_insert_error(e) == CCC_private_insert_error(e)

CCC_insert_error_as_occupied(e) == CCC_private_occupied(e)

CCC_equal_range_as_reverse(c, lo, hi) == CCC_private_equal_range_reverse(c, lo, hi)

CCC_equal_range_reverse_as_forward(c, lo, hi) == CCC_private_equal_range(c, lo, hi)

CCC_swap_entry(c, k, v, allocOk) == CCC_private_swap_entry(c, k, v, allocOk)

CCC_try_insert(c, k, v, allocOk) == CCC_private_try_insert(c, k, v, allocOk)

CCC_insert_or_assign(c, k, v, allocOk) == CCC_private_insert_or_assign(c, k, v, allocOk)

CCC_remove_key_value(c, k) == CCC_private_remove_key_value(c, k)

CCC_entry(c, k) == CCC_private_entry(c, k)

CCC_copy(dst, src, alloc, allocOk) == CCC_private_copy(dst, src, alloc, allocOk)

CCC_reserve(c, n, alloc, allocOk) == CCC_private_reserve(c, n, alloc, allocOk)

CCC_get_key_value(c, k) == CCC_private_get_key_value(c, k)

CCC_contains(c, k) == CCC_private_contains(c, k)

CCC_unwrap(e) == CCC_private_unwrap(e)

CCC_occupied(e) == CCC_private_occupied(e)

CCC_insert_error(e) == CCC_private_insert_error(e)

CCC_begin(c) == CCC_private_begin(c)

CCC_next(c, i) == CCC_private_next(c, i)

CCC_reverse_next(c, i) == CCC_private_reverse_next(c, i)

CCC_end(c) == CCC_private_end(c)

CCC_reverse_end(c) == CCC_private_reverse_end(c)

CCC_equal_range(c, lo, hi) == CCC_private_equal_range(c, lo, hi)

CCC_equal_range_reverse(c, lo, hi) == CCC_private_equal_range_reverse(c, lo, hi)

CCC_range_begin(r) == r.begin

CCC_range_end(r) == r.end

CCC_range_reverse_begin(r) == r.begin

CCC_range_reverse_end(r) == r.end

(***************************************************************************)
(* Construction.                                                           *)
(***************************************************************************)
\* A container record: the elements in iteration order, the capacity of the
\* backing storage, the two traits fixed at construction, and buf, the
\* identity of the backing storage the elements live in.
Container(ordered, dynamic, buf) ==
    [elems |-> <<>>,
     capacity |-> IF dynamic THEN 0 ELSE FixedCap,
     ordered |-> ordered,
     dynamic |-> dynamic,
     buf |-> buf]

RECURSIVE Ascending(_)
Ascending(S) ==
    IF S = {}
    THEN <<>>
    ELSE LET m == CHOOSE x \in S : \A y \in S : x <= y
         IN <<m>> \o Ascending(S \ {m})

\* A container constructed with no storage and no permission to allocate.
Unreserved(ordered, buf) == [Container(ordered, FALSE, buf) EXCEPT !.capacity = 0]

\* A container over a caller-owned buffer that already holds the keys S.
Prefilled(S, buf) ==
    [elems |-> [i \in 1..Cardinality(S) |->
                   [key |-> Ascending(S)[i], val |-> 1 + (Ascending(S)[i] % MaxVal)]],
     capacity |-> IF Cardinality(S) > FixedCap THEN Cardinality(S) ELSE FixedCap,
     ordered |-> TRUE,
     dynamic |-> FALSE,
     buf |-> buf]

NoResult ==
    [op |-> "none", id |-> "a", key |-> 0, arg |-> 0, alloc |-> FALSE,
     entry |-> Vacant(0, FALSE), rc |-> "OK", realloc |-> FALSE, covered |-> FALSE]

NoRange == [dir |-> "none", lo |-> 0, hi |-> 0, begin |-> 0, end |-> 0]

\* The container under test, "a", is constructed empty: dynamic, over a
\* fixed buffer, or with no storage and no permission; its peer "b" is an
\* ordered container of the same type that already holds elements and
\* serves as the source of copies.
Init ==
    /\ \E a \in {Container(TRUE, TRUE, "a"), Container(TRUE, FALSE, "a"),
                  Unreserved(TRUE, "a")},
          S \in SUBSET Keys :
        cont = [i \in Ids |-> IF i = "a" THEN a ELSE Prefilled(S, i)]
    /\ res = NoResult
    /\ reserved = [i \in Ids |-> 0]
    /\ range = NoRange

\* Two empty containers of one type, ordered or unordered, each over
\* storage of its own: "a" dynamic, "b" dynamic or over a fixed buffer.
CopyInit ==
    /\ \E o \in BOOLEAN, d \in BOOLEAN :
        cont = [i \in Ids |-> Container(o, i = "a" \/ d, i)]
    /\ res = NoResult
    /\ reserved = [i \in Ids |-> 0]
    /\ range = NoRange

\* An ordered container holding any set of keys, queried for ranges.
RangeInit ==
    /\ \E S \in SUBSET (1..MaxRangeKey) :
        cont = [i \in Ids |-> IF i = "a" THEN Prefilled(S, i) ELSE Prefilled({}, i)]
    /\ res = NoResult
    /\ reserved = [i \in Ids |-> 0]
    /\ range = NoRange

(***************************************************************************)
(* Operations on the keyed containers.                                     *)
(***************************************************************************)
\* The outcome of an allocation is an input only where one is attempted.
Allocates(c, allocOk) == allocOk \/ (c.dynamic /\ Count(c) >= c.capacity)

\* The containers after container id has become c.  The elements live in
\* the backing storage, so what is stored through one container is what
\* every container over the same storage holds.
Written(id, c) ==
    [i \in Ids |->
        IF i = id
        THEN c
        ELSE IF cont[i].buf = cont[id].buf
        THEN [cont[i] EXCEPT !.elems = c.elems, !.capacity = c.capacity]
        ELSE cont[i]]

Keyed(op, id, k, v, r) ==
    /\ cont' = Written(id, r.c)
    /\ res' = [op |-> op, id |-> id, key |-> k, arg |-> v, alloc |-> FALSE,
               entry |-> r.entry, rc |-> "OK", realloc |-> r.realloc,
               covered |-> op \notin {"remove_key_value", "remove_key_value_wrap"}
                               /\ reserved[id] > 0
                               /\ k \notin KeySet(cont[id])]
    /\ reserved' = [reserved EXCEPT ![id] =
                       IF Count(r.c) > Count(cont[id]) /\ @ > 0 THEN @ - 1 ELSE @]
    /\ UNCHANGED range

SwapEntry(id, k, v, allocOk) ==
    /\ Allocates(cont[id], allocOk)
    /\ Keyed("swap_entry", id, k, v, CCC_swap_entry(cont[id], k, v, allocOk))

TryInsert(id, k, v, allocOk) ==
    /\ Allocates(cont[id], allocOk)
    /\ Keyed("try_insert", id, k, v, CCC_try_insert(cont[id], k, v, allocOk))

InsertOrAssign(id, k, v, allocOk) ==
    /\ Allocates(cont[id], allocOk)
    /\ Keyed("insert_or_assign", id, k, v, CCC_insert_or_assign(cont[id], k, v, allocOk))

RemoveKeyValue(id, k) ==
    Keyed("remove_key_value", id, k, 0, CCC_remove_key_value(cont[id], k))

Managed(op, id, n, alloc, r, budget) ==
    /\ cont' = Written(id, r.c)
    /\ res' = [op |-> op, id |-> id, key |-> 0, arg |-> n, alloc |-> alloc,
               entry |-> Vacant(0, FALSE), rc |-> r.rc, realloc |-> r.realloc,
               covered |-> FALSE]
    /\ reserved' = [reserved EXCEPT ![id] = IF r.rc = "OK" THEN budget ELSE @]
    /\ UNCHANGED range

Reserve(id, n, alloc, allocOk) ==
    /\ alloc \/ ~allocOk
    /\ Managed("reserve", id, n, alloc, CCC_reserve(cont[id], n, alloc, allocOk), n)

Copy(dst, src, alloc, allocOk) ==
    /\ dst # src
    /\ alloc \/ ~allocOk
    /\ Managed("copy", dst, 0, alloc, CCC_copy(cont[dst], cont[src], alloc, allocOk), 0)

Next ==
    \/ \E k \in Keys, v \in Vals, allocOk \in BOOLEAN : SwapEntry("a", k, v, allocOk)
    \/ \E k \in Keys, v \in Vals, allocOk \in BOOLEAN : TryInsert("a", k, v, allocOk)
    \/ \E k \in Keys, v \in Vals, allocOk \in BOOLEAN : InsertOrAssign("a", k, v, allocOk)
    \/ \E k \in Keys : RemoveKeyValue("a", k)
    \/ \E n \in 0..MaxReserve, alloc \in BOOLEAN, allocOk \in BOOLEAN :
        Reserve("a", n, alloc, allocOk)
    \/ \E alloc \in BOOLEAN, allocOk \in BOOLEAN : Copy("a", "b", alloc, allocOk)

Spec == Init /\ [][Next]_vars

\* Both containers are mutated and copied into one another; two distinct
\* values are enough to tell an element from its overwritten self.
CopyVals == {1, MaxVal}

\* Two distinct keys are enough to tell one iteration order from another.
CopyKeys == {1, MaxKey}

CopyNext ==
    \/ \E id \in Ids, k \in CopyKeys, v \in CopyVals, allocOk \in BOOLEAN :
        InsertOrAssign(id, k, v, allocOk)
    \/ \E id \in Ids, k \in CopyKeys : RemoveKeyValue(id, k)
    \/ \E dst \in Ids, src \in Ids, alloc \in BOOLEAN, allocOk \in BOOLEAN :
        Copy(dst, src, alloc, allocOk)

CopySpec == CopyInit /\ [][CopyNext]_vars

(***************************************************************************)
(* Bounded queries on an ordered container.                                *)
(***************************************************************************)
\* Bounds to query with: every key, one below and one above all keys, and a
\* bound far above them.
Probes == 0..(MaxRangeKey + 1) \cup {2 * MaxRangeKey + 2}

\* A query leaves the container as it found it, so one query per behaviour
\* covers every query the container can answer.
EqualRange(id, lo, hi) ==
    /\ range = NoRange
    /\ range' = [dir |-> "forward", lo |-> lo, hi |-> hi,
                 begin |-> CCC_range_begin(CCC_equal_range(cont[id], lo, hi)),
                 end |-> CCC_range_end(CCC_equal_range(cont[id], lo, hi))]
    /\ UNCHANGED <<cont, res, reserved>>

EqualRangeReverse(id, lo, hi) ==
    /\ range = NoRange
    /\ range' = [dir |-> "reverse", lo |-> lo, hi |-> hi,
                 begin |-> CCC_range_reverse_begin(CCC_equal_range_reverse(cont[id], lo, hi)),
                 end |-> CCC_range_reverse_end(CCC_equal_range_reverse(cont[id], lo, hi))]
    /\ UNCHANGED <<cont, res, reserved>>

RangeNext ==
    \/ \E lo \in Probes, hi \in Probes : EqualRange("a", lo, hi)
    \/ \E lo \in Probes, hi \in Probes : EqualRangeReverse("a", lo, hi)

RangeSpec == RangeInit /\ [][RangeNext]_vars

\* The keys a caller sees walking a range from its begin cursor to its end
\* cursor, which is never dereferenced.
RECURSIVE Walk(_, _, _, _)
Walk(c, cur, end, forward) ==
    IF cur = end \/ cur \notin DOMAIN c.elems
    THEN <<>>
    ELSE <<c.elems[cur].key>>
             \o Walk(c, IF forward THEN CCC_next(c, cur) ELSE CCC_reverse_next(c, cur),
                     end, forward)

Yield(c, r) == Walk(c, r.begin, r.end, r.dir = "forward")

(***************************************************************************)
(* Properties.  A step is read through res': the operation just applied,   *)
(* its arguments and what it handed back; the unprimed variables are the   *)
(* state the operation found.                                              *)
(***************************************************************************)
Before == cont[res'.id]

After == cont'[res'.id]

InsertOps == {"swap_entry", "try_insert", "insert_or_assign"}

\* Membership and value of every key of K agree in c and d.
SameOn(c, d, K) ==
    \A j \in K :
        /\ CCC_contains(c, j) <=> CCC_contains(d, j)
        /\ CCC_get_key_value(c, j) = CCC_get_key_value(d, j)

\* Count, membership, values and capacity agree.
SameState(c, d) ==
    /\ Count(c) = Count(d)
    /\ SameOn(c, d, Keys)
    /\ c.capacity = d.capacity

\* The keys met walking the whole container from begin to end.
Traverse(c) == Walk(c, CCC_begin(c), CCC_end(c), TRUE)

\* C1: insert_or_assign(k, v) of an absent key k that reports no insert error
\* leaves k contained with value v, and every other key as it was.
C1_InsertOrAssignAbsent ==
    [][(/\ res'.op = "insert_or_assign"
        /\ ~CCC_contains(Before, res'.key)
        /\ ~CCC_insert_error(res'.entry))
       => /\ CCC_contains(After, res'.key)
          /\ CCC_get_key_value(After, res'.key) = res'.arg
          /\ SameOn(Before, After, Keys \ {res'.key})]_vars

\* An insert_or_assign that had to grow the storage for its new key, beside
\* a key already held.
C1_Witness ==
    /\ res.op = "insert_or_assign"
    /\ res.realloc
    /\ Count(cont[res.id]) = 2
    /\ CCC_get_key_value(cont[res.id], res.key) = res.arg

SwapOps == {"swap_entry", "swap_entry_wrap", "swap_handle", "swap_handle_wrap"}

HandleSwapOps == {"swap_handle", "swap_handle_wrap"}

\* What a swap handed back to the caller: the Entry of swap_entry unwraps to
\* it, swap_handle hands it over next to the Handle.
HandedBack(r) == IF r.op \in HandleSwapOps THEN r.old ELSE CCC_unwrap(r.entry)

\* C2: swap (swap_entry, swap_handle and their _wrap forms) on an Occupied key hands back the old
\* value and leaves the key with the new one, the Entry or Handle Occupied
\* and the count unchanged; swap on a Vacant key that reports no insert
\* error leaves the key held with the new value.
C2_Swap ==
    [][res'.op \in SwapOps
       => /\ CCC_contains(Before, res'.key)
              => /\ CCC_occupied(res'.entry)
                 /\ HandedBack(res') = CCC_get_key_value(Before, res'.key)
                 /\ CCC_get_key_value(After, res'.key) = res'.arg
                 /\ Count(After) = Count(Before)
                 /\ SameOn(Before, After, Keys \ {res'.key})
          /\ (~CCC_contains(Before, res'.key) /\ ~CCC_insert_error(res'.entry))
              => /\ CCC_contains(After, res'.key)
                 /\ CCC_get_key_value(After, res'.key) = res'.arg
                 /\ Count(After) = Count(Before) + 1
          /\ (res'.op \in HandleSwapOps /\ CCC_occupied(res'.entry))
              => After.elems[CCC_unwrap(res'.entry)] = [key |-> res'.key, val |-> res'.arg]]_vars

\* A swap that handed back an old value different from the new one it stored.
C2_Witness ==
    /\ res.op = "swap_entry"
    /\ CCC_occupied(res.entry)
    /\ CCC_unwrap(res.entry) # res.arg
    /\ CCC_get_key_value(cont[res.id], res.key) = res.arg

\* A swap_handle that handed back the old value 1 and stored 2 under the
\* second key, the Handle referring to its position.
C2_HandleWitness ==
    /\ res.op = "swap_handle"
    /\ CCC_occupied(res.entry)
    /\ res.old = 1
    /\ res.arg = 2
    /\ cont[res.id].elems[CCC_unwrap(res.entry)] = [key |-> 2, val |-> 2]

\* C3: try_insert on a key already held changes nothing, whatever value it
\* is given, and hands back the value already stored; so no number of
\* repeated calls changes the stored value or the count.
C3_TryInsertIdempotent ==
    [][(res'.op = "try_insert" /\ CCC_contains(Before, res'.key))
       => /\ CCC_get_key_value(After, res'.key) = CCC_get_key_value(Before, res'.key)
          /\ Count(After) = Count(Before)
          /\ SameOn(Before, After, Keys)
          /\ CCC_occupied(res'.entry)
          /\ CCC_unwrap(res'.entry) = CCC_get_key_value(Before, res'.key)]_vars

\* A try_insert that was given a value other than the stored one and handed
\* back the stored one.
C3_Witness ==
    /\ res.op = "try_insert"
    /\ CCC_occupied(res.entry)
    /\ CCC_unwrap(res.entry) # res.arg
    /\ CCC_get_key_value(cont[res.id], res.key) = CCC_unwrap(res.entry)

\* C4: remove_key_value of a key that is held leaves it not contained, hands
\* back the removed value, lowers the count by one and leaves every other
\* key as it was.
C4_RemoveKeyValue ==
    [][(res'.op = "remove_key_value" /\ CCC_contains(Before, res'.key))
       => /\ ~CCC_contains(After, res'.key)
          /\ CCC_occupied(res'.entry)
          /\ CCC_unwrap(res'.entry) = CCC_get_key_value(Before, res'.key)
          /\ Count(After) = Count(Before) - 1
          /\ SameOn(Before, After, Keys \ {res'.key})]_vars

\* A removal that handed back an element and left another key behind.
C4_Witness ==
    /\ res.op = "remove_key_value"
    /\ CCC_occupied(res.entry)
    /\ ~CCC_contains(cont[res.id], res.key)
    /\ Count(cont[res.id]) = 1

\* C5: an insertion, reservation or copy that cannot get the storage it
\* needs leaves count, membership, values and capacity as they were and says
\* so in what it hands back: a Vacant entry with insert-error set, or an error
\* result.  An insertion of a new key into full storage either grows it or
\* fails this way; insert_or_assign without insert error leaves the key held.
C5_FailureLeavesState ==
    [][/\ (res'.op \in InsertOps /\ CCC_insert_error(res'.entry))
          => /\ SameState(Before, After)
             /\ ~CCC_occupied(res'.entry)
             /\ CCC_unwrap(res'.entry) = NULL
       /\ (/\ res'.op \in InsertOps
           /\ ~CCC_contains(Before, res'.key)
           /\ Count(Before) >= Before.capacity)
          => \/ CCC_insert_error(res'.entry) /\ ~CCC_contains(After, res'.key)
             \/ /\ ~CCC_insert_error(res'.entry)
                /\ After.capacity > Before.capacity
                /\ CCC_contains(After, res'.key)
       /\ (res'.op = "insert_or_assign" /\ ~CCC_insert_error(res'.entry))
          => CCC_contains(After, res'.key)
       /\ (res'.op \in {"reserve", "copy"} /\ res'.rc # "OK")
          => /\ SameState(Before, After)
             /\ res'.rc \in {"CAPACITY_ERROR", "ALLOCATION_ERROR"}
       /\ (res'.op = "reserve" /\ res'.rc = "OK")
          => After.capacity - Count(After) >= res'.arg]_vars

\* An insert_or_assign that met full storage, reported the insert error and
\* left a container that still holds an element.
C5_Witness ==
    /\ res.op = "insert_or_assign"
    /\ CCC_insert_error(res.entry)
    /\ ~CCC_occupied(res.entry)
    /\ ~CCC_contains(cont[res.id], res.key)
    /\ Count(cont[res.id]) = cont[res.id].capacity
    /\ Count(cont[res.id]) > 0

\* C6: on a dynamic container, an insertion of a new key that a successful
\* reserve still covers succeeds without reallocating: the capacity stays and
\* the storage is not moved.
C6_ReserveCoversInsertions ==
    [][(/\ res'.op \in InsertOps
        /\ Before.dynamic
        /\ reserved[res'.id] > 0
        /\ ~CCC_contains(Before, res'.key))
       => /\ ~res'.realloc
          /\ After.capacity = Before.capacity
          /\ ~CCC_insert_error(res'.entry)
          /\ CCC_contains(After, res'.key)
          /\ reserved'[res'.id] = reserved[res'.id] - 1]_vars

\* The last insertion a reserve covered, into a dynamic container that is now
\* full: the next insertion has to reallocate.
C6_Witness ==
    /\ res.op \in InsertOps
    /\ res.covered
    /\ ~res.realloc
    /\ cont[res.id].dynamic
    /\ reserved[res.id] = 0
    /\ Count(cont[res.id]) = cont[res.id].capacity

\* The peer of a container: the source of a copy into it.
Other(id) == CHOOSE j \in Ids : j # id

\* Count, membership, values and iteration order agree.
SameContents(c, d) ==
    /\ Count(c) = Count(d)
    /\ SameOn(c, d, Keys)
    /\ Traverse(c) = Traverse(d)

\* C7: a successful copy leaves dst with the count, membership and iteration
\* order src has, in storage that is not the storage of src, and src as it
\* was; and the two are independent: a mutation of either container leaves
\* the other's count, membership and iteration order as they were.
C7_CopyIndependent ==
    [][/\ (res'.op = "copy" /\ res'.rc = "OK")
          => /\ SameContents(After, cont[Other(res'.id)])
             /\ SameContents(cont'[Other(res'.id)], cont[Other(res'.id)])
             /\ After.buf # cont'[Other(res'.id)].buf
       /\ (res'.op \in InsertOps \cup {"remove_key_value"})
          => /\ SameContents(cont'[Other(res'.id)], cont[Other(res'.id)])
             /\ cont'[Other(res'.id)].capacity = cont[Other(res'.id)].capacity]_vars

\* A copy between unordered containers that carried over an iteration order
\* that is not the sorted one.
C7_Witness ==
    /\ res.op = "copy"
    /\ res.rc = "OK"
    /\ Traverse(cont[res.id]) = <<MaxKey, 1>>
    /\ Traverse(cont[Other(res.id)]) = <<MaxKey, 1>>
    /\ cont[res.id].buf # cont[Other(res.id)].buf
    /\ SameOn(cont["a"], cont["b"], Keys)

\* An insertion of a new key into storage that is full.
NeedsGrowth ==
    /\ res'.op \in InsertOps
    /\ ~CCC_contains(Before, res'.key)
    /\ Count(Before) >= Before.capacity

\* A container over a fixed buffer: it holds storage and has no permission
\* to resize it.
FixedStorage(c) == ~c.dynamic /\ c.capacity > 0

C8_ReservedOnce ==
    /\ res.op = "reserve"
    /\ res.alloc
    /\ res.rc = "CAPACITY_ERROR"
    /\ ~cont[res.id].dynamic
    /\ cont[res.id].capacity = MaxReserve
    /\ Count(cont[res.id]) = MaxReserve

\* A copy without an allocator into a container over a fixed buffer too
\* small for the elements of src came back with the capacity error.
C8_CopyRefused ==
    /\ ~cont[res.id].dynamic
    /\ res.op = "copy"
    /\ ~res.alloc
    /\ res.rc = "CAPACITY_ERROR"
    /\ Count(cont[Other(res.id)]) > cont[res.id].capacity

Image(q) == {q[i] : i \in DOMAIN q}

Reversed(q) == [i \in 1..Len(q) |-> q[Len(q) + 1 - i]]

StrictlyAscending(q) == \A i \in 1..(Len(q) - 1) : q[i] < q[i + 1]

StrictlyDescending(q) == \A i \in 1..(Len(q) - 1) : q[i] > q[i + 1]

\* The stored keys within the bounds of the last query.
InBounds == {k \in KeySet(cont["a"]) : range.lo <= k /\ k <= range.hi}

\* C9: equal_range(lo, hi) with lo <= hi yields, ascending, exactly the
\* stored keys within [lo, hi]; when there is none the range is empty, its
\* begin equal to its end, both of them cursors.  Keys {1,3,5,6,9} with
\* bounds 3 and 7 yield 3, 5, 6.
C9_EqualRange ==
    (range.dir = "forward" /\ range.lo <= range.hi)
    => /\ Image(Yield(cont["a"], range)) = InBounds
       /\ StrictlyAscending(Yield(cont["a"], range))
       /\ Len(Yield(cont["a"], range)) = Cardinality(InBounds)
       /\ InBounds = {} => CCC_range_begin(range) = CCC_range_end(range)
       /\ CCC_range_begin(range) \in 1..CCC_end(cont["a"])
       /\ CCC_range_end(range) \in 1..CCC_end(cont["a"])
       /\ (KeySet(cont["a"]) = {1, 3, 5, 6, 9} /\ range.lo = 3 /\ range.hi = 7)
          => Yield(cont["a"], range) = <<3, 5, 6>>

\* equal_range(3, 7) over the keys {1,3,5,6,9}.
C9_Witness ==
    /\ range.dir = "forward"
    /\ KeySet(cont["a"]) = {1, 3, 5, 6, 9}
    /\ range.lo = 3
    /\ range.hi = 7
    /\ Yield(cont["a"], range) = <<3, 5, 6>>

\* equal_range over bounds above every key: an empty range, begin = end.
C9_EmptyRange ==
    /\ range.dir = "forward"
    /\ KeySet(cont["a"]) = {1, 3, 5, 6, 9}
    /\ range.lo = 10
    /\ range.hi = 20
    /\ CCC_range_begin(range) = CCC_range_end(range)

\* What equal_range yields on the same container for the same bounds.
ForwardYield ==
    Walk(cont["a"],
         CCC_range_begin(CCC_equal_range(cont["a"], range.lo, range.hi)),
         CCC_range_end(CCC_equal_range(cont["a"], range.lo, range.hi)),
         TRUE)

\* C10: equal_range_reverse(lo, hi) with lo <= hi yields the elements
\* equal_range yields for the same bounds, in the opposite, descending order.
\* Keys {1,3,5,6,9} with bounds 3 and 7 yield 6, 5, 3.
C10_EqualRangeReverse ==
    (range.dir = "reverse" /\ range.lo <= range.hi)
    => /\ Yield(cont["a"], range) = Reversed(ForwardYield)
       /\ Image(Yield(cont["a"], range)) = InBounds
       /\ StrictlyDescending(Yield(cont["a"], range))
       /\ (KeySet(cont["a"]) = {1, 3, 5, 6, 9} /\ range.lo = 3 /\ range.hi = 7)
          => Yield(cont["a"], range) = <<6, 5, 3>>

\* equal_range_reverse(3, 7) over the keys {1,3,5,6,9}.
C10_Witness ==
    /\ range.dir = "reverse"
    /\ KeySet(cont["a"]) = {1, 3, 5, 6, 9}
    /\ range.lo = 3
    /\ range.hi = 7
    /\ Yield(cont["a"], range) = <<6, 5, 3>>

(***************************************************************************)
(* Push, pop, front and back: a min-ordered priority queue kept as a       *)
(* binary heap and a double-ended sequence kept in positional order, both  *)
(* modelled from the interface specification.  A reference to an element   *)
(* is its position; NULL is no position.                                   *)
(***************************************************************************)
MaxLen == 4

\* The priorities pushed and assigned: those of the worked example.
Prios == {0, 1, 3, 5, 8}

Elem(p) == [key |-> p, val |-> p]

Swapped(q, i, j) == [q EXCEPT ![i] = q[j], ![j] = q[i]]

\* Move the element at i toward the root while it orders before its parent.
RECURSIVE BubbleUp(_, _)
BubbleUp(q, i) ==
    IF i > 1 /\ q[i].key < q[i \div 2].key
    THEN BubbleUp(Swapped(q, i, i \div 2), i \div 2)
    ELSE q

\* The position among i and its children holding the least key.
Least(q, i) ==
    LET l == IF 2 * i <= Len(q) /\ q[2 * i].key < q[i].key THEN 2 * i ELSE i
    IN IF 2 * i + 1 <= Len(q) /\ q[2 * i + 1].key < q[l].key THEN 2 * i + 1 ELSE l

\* Move the element at i toward the leaves while a child orders before it.
RECURSIVE BubbleDown(_, _)
BubbleDown(q, i) ==
    IF i \in DOMAIN q /\ Least(q, i) # i
    THEN BubbleDown(Swapped(q, i, Least(q, i)), Least(q, i))
    ELSE q

\* Storage after one more element went in.
Grown(c) == IF Count(c) < c.capacity THEN c.capacity ELSE GrowCapacity(c.capacity)

\* The outcome of a push: the container, a reference to the pushed element
\* or NULL when no storage could be had.
Pushed(c, q, at, allocOk) ==
    IF HasRoom(c, allocOk)
    THEN [c |-> [c EXCEPT !.elems = q, !.capacity = Grown(c)], rc |-> "OK", out |-> at]
    ELSE [c |-> c, rc |-> "ALLOCATION_ERROR", out |-> NULL]

\* Where the element appended to q comes to rest in the heap.
RECURSIVE Rest(_, _)
Rest(q, i) ==
    IF i > 1 /\ q[i].key < q[i \div 2].key
    THEN Rest(Swapped(q, i, i \div 2), i \div 2)
    ELSE i

CCC_private_push(c, p, allocOk) ==
    Pushed(c, BubbleUp(Append(c.elems, Elem(p)), Count(c) + 1),
           Rest(Append(c.elems, Elem(p)), Count(c) + 1), allocOk)

CCC_private_push_back(c, p, allocOk) ==
    Pushed(c, Append(c.elems, Elem(p)), Count(c) + 1, allocOk)

CCC_private_push_front(c, p, allocOk) ==
    Pushed(c, <<Elem(p)>> \o c.elems, 1, allocOk)

\* The heap without the element at i: the last element takes its place and
\* is moved to where the heap order wants it.
Without(q, i) ==
    IF i = Len(q)
    THEN SubSeq(q, 1, Len(q) - 1)
    ELSE BubbleDown(BubbleUp([SubSeq(q, 1, Len(q) - 1) EXCEPT ![i] = q[Len(q)]], i), i)

\* A removal that never asks whether there is an element to remove.
Popped_unchecked(c, q) == [c |-> [c EXCEPT !.elems = q], rc |-> "OK", out |-> NULL]

\* A removal from the empty container reports it and removes nothing.
Popped(c, q) ==
    IF Count(c) = 0
    THEN [c |-> c, rc |-> "ARGUMENT_ERROR", out |-> NULL]
    ELSE [c |-> [c EXCEPT !.elems = q], rc |-> "OK", out |-> NULL]

CCC_private_pop(c) == Popped(c, Without(c.elems, 1))

CCC_private_pop_front(c) == Popped(c, SubSeq(c.elems, 2, Count(c)))

CCC_private_pop_back(c) == Popped(c, SubSeq(c.elems, 1, Count(c) - 1))

CCC_private_front(c) == IF Count(c) = 0 THEN NULL ELSE 1

CCC_private_back(c) == IF Count(c) = 0 THEN NULL ELSE Count(c)

Rekeyed(c, i, p) == [c.elems EXCEPT ![i] = Elem(p)]

\* update moves the element either way; increase only toward the leaves and
\* decrease only toward the root, the direction the caller vouches for.
CCC_private_update(c, i, p) ==
    [c |-> [c EXCEPT !.elems = BubbleDown(BubbleUp(Rekeyed(c, i, p), i), i)],
     rc |-> "OK", out |-> NULL]

CCC_private_increase(c, i, p) ==
    [c |-> [c EXCEPT !.elems = BubbleDown(Rekeyed(c, i, p), i)],
     rc |-> "OK", out |-> NULL]

CCC_private_decrease(c, i, p) ==
    [c |-> [c EXCEPT !.elems = BubbleUp(Rekeyed(c, i, p), i)],
     rc |-> "OK", out |-> NULL]

CCC_private_erase(c, i) ==
    [c |-> [c EXCEPT !.elems = Without(c.elems, i)], rc |-> "OK", out |-> NULL]

\* The heap order: no element orders before its parent.
CCC_private_validate(c) ==
    \A i \in DOMAIN c.elems : i > 1 => c.elems[i \div 2].key <= c.elems[i].key

\* The forwarding macros with a neighbouring expansion.
CCC_decrease_as_increase(c, i, p) == CCC_private_increase(c, i, p)

CCC_push(c, p, allocOk) == CCC_private_push(c, p, allocOk)

CCC_push_back(c, p, allocOk) == CCC_private_push_back(c, p, allocOk)

CCC_push_front(c, p, allocOk) == CCC_private_push_front(c, p, allocOk)

CCC_pop(c) == CCC_private_pop(c)

CCC_pop_front(c) == CCC_private_pop_front(c)

CCC_pop_back(c) == CCC_private_pop_back(c)

CCC_front(c) == CCC_private_front(c)

CCC_back(c) == CCC_private_back(c)

CCC_update(c, i, p) == CCC_private_update(c, i, p)

CCC_increase(c, i, p) == CCC_private_increase(c, i, p)

CCC_decrease(c, i, p) == CCC_private_decrease(c, i, p)

CCC_erase(c, i) == CCC_private_erase(c, i)

CCC_validate(c) == CCC_private_validate(c)

\* An empty priority queue or sequence, dynamic or over a fixed buffer.
Holder(kind, dynamic, buf) ==
    [elems |-> <<>>,
     capacity |-> IF dynamic THEN 0 ELSE FixedCap,
     ordered |-> FALSE,
     dynamic |-> dynamic,
     buf |-> buf,
     kind |-> kind]

\* A sequence that already holds the keys, to splice from.
Filled(kind, buf) ==
    [Holder(kind, TRUE, buf) EXCEPT
        !.elems = IF kind = "sequence" THEN [k \in Keys |-> Elem(k)] ELSE <<>>,
        !.capacity = IF kind = "sequence" THEN MaxKey ELSE 0]

PushPopInit ==
    /\ \E kind \in {"priority_queue", "sequence"}, d \in BOOLEAN :
        cont = [i \in Ids |-> IF i = "a" THEN Holder(kind, d, i) ELSE Filled(kind, i)]
    /\ res = NoResult
    /\ reserved = [i \in Ids |-> 0]
    /\ range = NoRange

IsHeap(id) == cont[id].kind = "priority_queue"

IsSequence(id) == cont[id].kind = "sequence"

\* One operation of this interface: the container it leaves, its result
\* code and the reference it hands back.
Sequenced(op, id, r) ==
    /\ cont' = Written(id, r.c)
    /\ res' = [op |-> op, id |-> id, rc |-> r.rc, out |-> r.out]
    /\ UNCHANGED <<reserved, range>>

Peeked(c, at) == [c |-> c, rc |-> "OK", out |-> at]

Push(id, p, allocOk) ==
    /\ IsHeap(id)
    /\ Count(cont[id]) < MaxLen
    /\ Allocates(cont[id], allocOk)
    /\ Sequenced("push", id, CCC_push(cont[id], p, allocOk))

PushBack(id, p, allocOk) ==
    /\ IsSequence(id)
    /\ Count(cont[id]) < MaxLen
    /\ Allocates(cont[id], allocOk)
    /\ Sequenced("push_back", id, CCC_push_back(cont[id], p, allocOk))

PushFront(id, p, allocOk) ==
    /\ IsSequence(id)
    /\ Count(cont[id]) < MaxLen
    /\ Allocates(cont[id], allocOk)
    /\ Sequenced("push_front", id, CCC_push_front(cont[id], p, allocOk))

Pop(id) ==
    /\ IsHeap(id)
    /\ Sequenced("pop", id, CCC_pop(cont[id]))

PopFront(id) ==
    /\ IsSequence(id)
    /\ Sequenced("pop_front", id, CCC_pop_front(cont[id]))

PopBack(id) ==
    /\ IsSequence(id)
    /\ Sequenced("pop_back", id, CCC_pop_back(cont[id]))

Front(id) == Sequenced("front", id, Peeked(cont[id], CCC_front(cont[id])))

Back(id) ==
    /\ IsSequence(id)
    /\ Sequenced("back", id, Peeked(cont[id], CCC_back(cont[id])))

\* update, increase, decrease and erase take an element known to be in the
\* container; increase and decrease are called in their stated direction.
Update(id, i, p) ==
    /\ IsHeap(id)
    /\ i \in DOMAIN cont[id].elems
    /\ Sequenced("update", id, CCC_update(cont[id], i, p))

Increase(id, i, p) ==
    /\ IsHeap(id)
    /\ i \in DOMAIN cont[id].elems
    /\ p >= cont[id].elems[i].key
    /\ Sequenced("increase", id, CCC_increase(cont[id], i, p))

Decrease(id, i, p) ==
    /\ IsHeap(id)
    /\ i \in DOMAIN cont[id].elems
    /\ p <= cont[id].elems[i].key
    /\ Sequenced("decrease", id, CCC_decrease(cont[id], i, p))

Erase(id, i) ==
    /\ IsHeap(id)
    /\ i \in DOMAIN cont[id].elems
    /\ Sequenced("erase", id, CCC_erase(cont[id], i))

\* The sequence q with the run of positions i up to, not including, e moved
\* in front of the element that stood at pos: the elements are the same ones,
\* no storage is obtained.
Moved(q, pos, i, e) ==
    LET run == SubSeq(q, i, e - 1)
        rest == SubSeq(q, 1, i - 1) \o SubSeq(q, e, Len(q))
        before == IF pos <= i THEN pos - 1 ELSE pos - 1 - (e - i)
    IN SubSeq(rest, 1, before) \o run \o SubSeq(rest, before + 1, Len(rest))

\* The containers after the run i up to e of the container at src went in
\* front of position pos of the container at dst, the same container or
\* another one of its type.  The elements bring their storage with them.
Spliced(conts, dst, pos, src, i, e) ==
    IF dst = src
    THEN [conts EXCEPT ![dst].elems = Moved(@, pos, i, e)]
    ELSE [conts EXCEPT
            ![src].elems = SubSeq(@, 1, i - 1) \o SubSeq(@, e, Len(@)),
            ![dst].elems = SubSeq(@, 1, pos - 1) \o SubSeq(conts[src].elems, i, e - 1)
                               \o SubSeq(@, pos, Len(@)),
            ![dst].capacity = IF @ < Count(conts[dst]) + (e - i)
                              THEN Count(conts[dst]) + (e - i)
                              ELSE @]

CCC_private_splice(conts, dst, pos, src, i) ==
    [cont |-> Spliced(conts, dst, pos, src, i, i + 1), rc |-> "OK", out |-> NULL]

CCC_private_splice_range(conts, dst, pos, src, i, e) ==
    [cont |-> Spliced(conts, dst, pos, src, i, e), rc |-> "OK", out |-> NULL]

\* extract takes the element out and hands it to the caller: no destructor
\* runs on it.  The heap closes the gap as erase does.
CCC_private_extract(c, i) ==
    [c |-> [c EXCEPT !.elems = IF c.kind = "priority_queue"
                                THEN Without(c.elems, i)
                                ELSE SubSeq(c.elems, 1, i - 1) \o SubSeq(c.elems, i + 1, Count(c))],
     rc |-> "OK",
     out |-> <<c.elems[i]>>]

CCC_private_extract_range(c, i, e) ==
    [c |-> [c EXCEPT !.elems = SubSeq(c.elems, 1, i - 1) \o SubSeq(c.elems, e, Count(c))],
     rc |-> "OK",
     out |-> SubSeq(c.elems, i, e - 1)]

CCC_splice(conts, dst, pos, src, i) == CCC_private_splice(conts, dst, pos, src, i)

CCC_splice_range(conts, dst, pos, src, i, e) ==
    CCC_private_splice_range(conts, dst, pos, src, i, e)

CCC_extract(c, i) == CCC_private_extract(c, i)

CCC_extract_range(c, i, e) == CCC_private_extract_range(c, i, e)

\* A splice changes the container spliced into and the one spliced from.
SplicedInto(op, id, r) ==
    /\ cont' = r.cont
    /\ res' = [op |-> op, id |-> id, rc |-> r.rc, out |-> r.out]
    /\ UNCHANGED <<reserved, range>>

\* splice moves the element at position i of the container src in front of
\* position pos of the container id, which may be its end; splice_range
\* moves the run from i up to e.  Within one container pos lies outside of
\* the run moved.
Splice(id, pos, src, i) ==
    /\ IsSequence(id)
    /\ i \in DOMAIN cont[src].elems
    /\ pos \in 1..(Count(cont[id]) + 1)
    /\ src # id => Count(cont[id]) < MaxLen
    /\ SplicedInto("splice", id, CCC_splice(cont, id, pos, src, i))

SpliceRange(id, pos, src, i, e) ==
    /\ IsSequence(id)
    /\ i \in DOMAIN cont[src].elems
    /\ e \in i..(Count(cont[src]) + 1)
    /\ pos \in 1..(Count(cont[id]) + 1)
    /\ src = id => (pos <= i \/ pos >= e)
    /\ src # id => Count(cont[id]) + (e - i) <= MaxLen
    /\ SplicedInto("splice_range", id, CCC_splice_range(cont, id, pos, src, i, e))

Extract(id, i) ==
    /\ i \in DOMAIN cont[id].elems
    /\ Sequenced("extract", id, CCC_extract(cont[id], i))

ExtractRange(id, i, e) ==
    /\ IsSequence(id)
    /\ i \in DOMAIN cont[id].elems
    /\ e \in i..(Count(cont[id]) + 1)
    /\ Sequenced("extract_range", id, CCC_extract_range(cont[id], i, e))

PushPopNext ==
    \/ \E p \in Prios, allocOk \in BOOLEAN : Push("a", p, allocOk)
    \/ \E p \in Keys, allocOk \in BOOLEAN : PushBack("a", p, allocOk)
    \/ \E p \in Keys, allocOk \in BOOLEAN : PushFront("a", p, allocOk)
    \/ Pop("a")
    \/ PopFront("a")
    \/ PopBack("a")
    \/ Front("a")
    \/ Back("a")
    \/ \E i \in 1..MaxLen, p \in Prios : Update("a", i, p)
    \/ \E i \in 1..MaxLen, p \in Prios : Increase("a", i, p)
    \/ \E i \in 1..MaxLen, p \in Prios : Decrease("a", i, p)
    \/ \E i \in 1..MaxLen : Erase("a", i)
    \/ \E pos \in 1..(MaxLen + 1), src \in Ids, i \in 1..MaxLen : Splice("a", pos, src, i)
    \/ \E pos \in 1..(MaxLen + 1), src \in Ids, i \in 1..MaxLen, e \in 1..(MaxLen + 1) :
        SpliceRange("a", pos, src, i, e)
    \/ \E i \in 1..MaxLen : Extract("a", i)
    \/ \E i \in 1..MaxLen, e \in 1..(MaxLen + 1) : ExtractRange("a", i, e)

PushPopSpec == PushPopInit /\ [][PushPopNext]_vars

\* The keys resident in c, and the key a reference into c refers to.
Resident(c) == {c.elems[i].key : i \in DOMAIN c.elems}

Deref(c, at) == c.elems[at].key

\* C11: in a min-ordered priority container, after any sequence of push,
\* pop, update, increase, decrease and erase (increase and decrease in their
\* stated direction), validate() reports the invariant intact and front()
\* yields the minimum key among the resident elements: 1 once 5, 3, 8, 1
\* are resident, 0 once the element holding 8 was decreased to 0.
C11_FrontIsMinimum ==
    IsHeap("a")
    => /\ CCC_validate(cont["a"])
       /\ (CCC_front(cont["a"]) = NULL) <=> (Count(cont["a"]) = 0)
       /\ Count(cont["a"]) > 0
          => /\ Deref(cont["a"], CCC_front(cont["a"])) \in Resident(cont["a"])
             /\ \A k \in Resident(cont["a"]) : Deref(cont["a"], CCC_front(cont["a"])) <= k
       /\ (Count(cont["a"]) = 4 /\ Resident(cont["a"]) = {5, 3, 8, 1})
          => Deref(cont["a"], CCC_front(cont["a"])) = 1
       /\ (Count(cont["a"]) = 4 /\ Resident(cont["a"]) = {5, 3, 0, 1})
          => Deref(cont["a"], CCC_front(cont["a"])) = 0

\* 5, 3, 8, 1 were pushed and the element holding 8 was decreased to 0.
C11_Witness ==
    /\ IsHeap("a")
    /\ res.op = "decrease"
    /\ Count(cont["a"]) = 4
    /\ Resident(cont["a"]) = {5, 3, 0, 1}
    /\ Deref(cont["a"], CCC_front(cont["a"])) = 0
    /\ CCC_validate(cont["a"])

\* C14: pop, pop_front and pop_back on an empty container report the
\* empty-container condition through their result and leave the container
\* unchanged; front and back remove nothing, whatever the container holds,
\* and report absence exactly when it is empty.
C14_EmptyReported ==
    [][/\ (res'.op \in {"pop", "pop_front", "pop_back"} /\ Count(Before) = 0)
          => /\ res'.rc # "OK"
             /\ After = Before
       /\ res'.op \in {"front", "back"}
          => /\ After = Before
             /\ (res'.out = NULL) <=> (Count(Before) = 0)
             /\ res'.out # NULL => res'.out \in DOMAIN Before.elems]_vars

\* A pop_front, a pop_back and a pop (of the priority queue) met the empty
\* container, or front found nothing to peek at.
C14_Witness ==
    /\ res.op \in {"pop", "pop_front", "pop_back", "front"}
    /\ Count(cont["a"]) = 0
    /\ res.op = "front" => res.out = NULL
    /\ res.op # "front" => res.rc = "ARGUMENT_ERROR"

(***************************************************************************)
(* Clearing, teardown and the state queries, modelled from the interface   *)
(* specification.  A destructor, when one is passed, is called on elements *)
(* and the calls are recorded in the order they are made.                  *)
(***************************************************************************)
\* A NULL container pointer.
NoContainer == [null |-> TRUE]

\* The calls made to the destructor while the elements of c are dropped.
Destroyed(c, destroy) == IF destroy THEN c.elems ELSE <<>>

CCC_private_clear(c, destroy) ==
    [c |-> [c EXCEPT !.elems = <<>>],
     rc |-> "OK", destroyed |-> Destroyed(c, destroy), freed |-> "none"]

\* The buffer goes back through the allocator the container holds.
CCC_private_clear_and_free(c, destroy) ==
    [c |-> [c EXCEPT !.elems = <<>>, !.capacity = 0],
     rc |-> "OK", destroyed |-> Destroyed(c, destroy), freed |-> "own"]

\* The buffer goes back through the allocator passed in, which is required.
CCC_private_clear_and_free_reserve(c, destroy, alloc) ==
    IF alloc
    THEN [c |-> [c EXCEPT !.elems = <<>>, !.capacity = 0],
          rc |-> "OK", destroyed |-> Destroyed(c, destroy), freed |-> "passed"]
    ELSE [c |-> c, rc |-> "ARGUMENT_ERROR", destroyed |-> <<>>, freed |-> "none"]

\* A size, or the argument error set in its place.
Sized(p, n) ==
    IF p = NoContainer
    THEN [error |-> "ARGUMENT_ERROR", count |-> 0]
    ELSE [error |-> "OK", count |-> n]

CCC_private_count(p) == Sized(p, IF p = NoContainer THEN 0 ELSE Count(p))

CCC_private_capacity(p) == Sized(p, IF p = NoContainer THEN 0 ELSE p.capacity)

CCC_private_is_empty(p) == p = NoContainer \/ Count(p) = 0

\* The forwarding macros with a neighbouring expansion.
CCC_clear_as_clear_and_free(c, destroy) == CCC_private_clear_and_free(c, destroy)

CCC_clear_and_free_reserve_as_clear(c, destroy, alloc) == CCC_private_clear(c, destroy)

CCC_count_as_capacity(p) == CCC_private_capacity(p)

CCC_clear(c, destroy) == CCC_private_clear(c, destroy)

CCC_clear_and_free(c, destroy) == CCC_private_clear_and_free(c, destroy)

CCC_clear_and_free_reserve(c, destroy, alloc) ==
    CCC_private_clear_and_free_reserve(c, destroy, alloc)

CCC_count(p) == CCC_private_count(p)

CCC_capacity(p) == CCC_private_capacity(p)

CCC_is_empty(p) == CCC_private_is_empty(p)

\* A clearing call: the container it leaves, the destructor calls it made
\* and the allocator the buffer was released through.
Cleared(op, id, destroy, alloc, r) ==
    /\ cont' = Written(id, r.c)
    /\ res' = [op |-> op, id |-> id, destroy |-> destroy, alloc |-> alloc,
               rc |-> r.rc, destroyed |-> r.destroyed, freed |-> r.freed]
    /\ reserved' = [reserved EXCEPT ![id] = IF r.c.capacity = 0 THEN 0 ELSE @]
    /\ UNCHANGED range

Clear(id, destroy) ==
    Cleared("clear", id, destroy, FALSE, CCC_clear(cont[id], destroy))

\* clear_and_free is for a container that holds an allocator.
ClearAndFree(id, destroy) ==
    /\ cont[id].dynamic
    /\ Cleared("clear_and_free", id, destroy, FALSE, CCC_clear_and_free(cont[id], destroy))

ClearAndFreeReserve(id, destroy, alloc) ==
    Cleared("clear_and_free_reserve", id, destroy, alloc,
            CCC_clear_and_free_reserve(cont[id], destroy, alloc))

\* A state query through a pointer that is NULL or refers to the container.
Pointer(id, null) == IF null THEN NoContainer ELSE cont[id]

Queried(op, id, null, out) ==
    /\ res' = [op |-> op, id |-> id, null |-> null, out |-> out]
    /\ UNCHANGED <<cont, reserved, range>>

QueryCount(id, null) == Queried("count", id, null, CCC_count(Pointer(id, null)))

QueryCapacity(id, null) == Queried("capacity", id, null, CCC_capacity(Pointer(id, null)))

QueryIsEmpty(id, null) == Queried("is_empty", id, null, CCC_is_empty(Pointer(id, null)))

TeardownNext ==
    \/ \E k \in Keys, v \in Vals, allocOk \in BOOLEAN : InsertOrAssign("a", k, v, allocOk)
    \/ \E n \in 0..MaxReserve, alloc \in BOOLEAN, allocOk \in BOOLEAN :
        Reserve("a", n, alloc, allocOk)
    \/ \E destroy \in BOOLEAN : Clear("a", destroy)
    \/ \E destroy \in BOOLEAN : ClearAndFree("a", destroy)
    \/ \E id \in Ids, destroy \in BOOLEAN, alloc \in BOOLEAN :
        ClearAndFreeReserve(id, destroy, alloc)
    \/ \E null \in BOOLEAN : QueryCount("a", null)
    \/ \E null \in BOOLEAN : QueryCapacity("a", null)
    \/ \E null \in BOOLEAN : QueryIsEmpty("a", null)

TeardownSpec == Init /\ [][TeardownNext]_vars

\* The destructor was called once on each element of c and on nothing else.
OncePerElement(d, c) ==
    /\ Len(d) = Count(c)
    /\ \A i \in DOMAIN c.elems : Cardinality({j \in DOMAIN d : d[j] = c.elems[i]}) = 1
    /\ \A j \in DOMAIN d : \E i \in DOMAIN c.elems : d[j] = c.elems[i]

\* Nothing is held: the count is 0, is_empty answers true, no key is contained.
HoldsNothing(c) ==
    /\ CCC_count(c).count = 0
    /\ CCC_is_empty(c)
    /\ \A k \in Keys : ~CCC_contains(c, k)

\* C12: clear_and_free_reserve called with the allocator on a container
\* holding any number of residual elements, none included, leaves count 0
\* and capacity 0; called with a destructor as well, it calls the destructor
\* exactly once per residual element, in any order, never twice on one and
\* never on an element that was not in the container.
C12_ClearAndFreeReserve ==
    [][(res'.op = "clear_and_free_reserve" /\ res'.alloc)
       => /\ res'.rc = "OK"
          /\ res'.destroy => OncePerElement(res'.destroyed, Before)
          /\ ~res'.destroy => res'.destroyed = <<>>
          /\ res'.freed = "passed"
          /\ CCC_count(After).count = 0
          /\ CCC_capacity(After).count = 0]_vars

\* A container over a caller's buffer that holds two elements was torn down
\* with both of them resident.
C12_Witness ==
    /\ res.op = "clear_and_free_reserve"
    /\ res.destroy
    /\ res.alloc
    /\ ~cont[res.id].dynamic
    /\ Len(res.destroyed) = 2
    /\ res.destroyed[1] # res.destroyed[2]
    /\ CCC_count(cont[res.id]).count = 0
    /\ CCC_capacity(cont[res.id]).count = 0

\* A container that received its storage from one reserve was torn down
\* with both of its elements resident.
C12_Reserved ==
    /\ res.op = "clear_and_free_reserve"
    /\ res.id = "a"
    /\ res.destroy
    /\ res.alloc
    /\ ~cont["a"].dynamic
    /\ Len(res.destroyed) = 2
    /\ CCC_capacity(cont["a"]).count = 0

\* An empty container was torn down: the destructor was not called.
C12_Empty ==
    /\ res.op = "clear_and_free_reserve"
    /\ res.destroy
    /\ res.alloc
    /\ res.destroyed = <<>>
    /\ CCC_capacity(cont[res.id]).count = 0

\* C13: clear calls the destructor on every element held and sets the count
\* to 0 (is_empty true, no key contained) while keeping the buffer, the
\* capacity after being the capacity before; clear_and_free does the same and
\* releases the buffer through the container's own allocator.
C13_ClearKeepsBuffer ==
    [][/\ res'.op = "clear"
          => /\ res'.destroy => OncePerElement(res'.destroyed, Before)
             /\ HoldsNothing(After)
             /\ CCC_capacity(After) = CCC_capacity(Before)
             /\ res'.freed = "none"
       /\ res'.op = "clear_and_free"
          => /\ res'.destroy => OncePerElement(res'.destroyed, Before)
             /\ HoldsNothing(After)
             /\ CCC_capacity(After).count = 0
             /\ res'.freed = "own"]_vars

\* Two elements were cleared out of a buffer of capacity 2, which is kept.
C13_Witness ==
    /\ res.op = "clear"
    /\ res.destroy
    /\ Len(res.destroyed) = 2
    /\ CCC_is_empty(cont["a"])
    /\ CCC_capacity(cont["a"]).count = 2

\* A dynamic container holding elements was cleared and its buffer released.
C13_Freed ==
    /\ res.op = "clear_and_free"
    /\ res.destroy
    /\ Len(res.destroyed) > 0
    /\ res.freed = "own"
    /\ CCC_capacity(cont["a"]).count = 0

\* C15: through a NULL container pointer count and capacity report an
\* argument error in their result in place of a size, and is_empty answers
\* true; through a pointer to a container they report its size and capacity,
\* and is_empty answers true exactly when the container holds no element.
C15_NullContainer ==
    [][/\ res'.op = "count"
          => IF res'.null
             THEN res'.out.error = "ARGUMENT_ERROR"
             ELSE res'.out.error = "OK" /\ res'.out.count = Len(Before.elems)
       /\ res'.op = "capacity"
          => IF res'.null
             THEN res'.out.error = "ARGUMENT_ERROR"
             ELSE res'.out.error = "OK" /\ res'.out.count = Before.capacity
       /\ res'.op = "is_empty"
          => res'.out = (res'.null \/ Len(Before.elems) = 0)]_vars

\* is_empty answered true for a NULL pointer while the container held an
\* element.
C15_Witness ==
    /\ res.op = "is_empty"
    /\ res.null
    /\ res.out
    /\ Count(cont["a"]) > 0

\* count reported an argument error for a NULL pointer.
C15_CountOfNull ==
    /\ res.op = "count"
    /\ res.null
    /\ res.out.error = "ARGUMENT_ERROR"

(***************************************************************************)
(* The Entry interface: a query yields an Entry (or Handle), modifications *)
(* are chained on it and a terminal call consumes it.  An Entry refers to  *)
(* the container it was obtained from; the operators below take that       *)
(* container next to the Entry.  Modelled from the interface               *)
(* specification.                                                          *)
(***************************************************************************)
\* handle(k): as entry(k), the element referred to by its stable position.
CCC_private_handle(c, k) ==
    IF CCC_private_contains(c, k) THEN Occupied(k, Find(c, k)) ELSE Vacant(k, FALSE)

\* The modification functions passed: one needing no context, one storing
\* the context it is given.
Bump == [v \in Vals |-> 1 + (v % MaxVal)]

Store == [x \in Vals \X Vals |-> x[2]]

\* and_modify applies fn to the value held when the Entry is Occupied.
CCC_private_and_modify(c, e, fn) ==
    IF e.occupied
    THEN [c |-> Assign(c, e.key, fn[e.value]),
          entry |-> Occupied(e.key, fn[e.value]),
          called |-> TRUE]
    ELSE [c |-> c, entry |-> e, called |-> FALSE]

CCC_private_and_context_modify(c, e, fn, context) ==
    IF e.occupied
    THEN [c |-> Assign(c, e.key, fn[<<e.value, context>>]),
          entry |-> Occupied(e.key, fn[<<e.value, context>>]),
          called |-> TRUE]
    ELSE [c |-> c, entry |-> e, called |-> FALSE]

\* A terminal call hands back a reference into the container it leaves: the
\* position of the element, or NULL.
Referred(r, k) == [c |-> r.c, out |-> Find(r.c, k), realloc |-> r.realloc]

\* or_insert inserts v when the Entry is Vacant and leaves an Occupied
\* Entry's element alone.
CCC_private_or_insert(c, e, v, allocOk) ==
    IF e.occupied
    THEN Referred([c |-> c, realloc |-> FALSE], e.key)
    ELSE Referred(InsertVacant(c, e.key, v, allocOk), e.key)

\* insert_entry inserts v or overwrites the element of an Occupied Entry.
CCC_private_insert_entry(c, e, v, allocOk) ==
    IF e.occupied
    THEN Referred([c |-> Assign(c, e.key, v), realloc |-> FALSE], e.key)
    ELSE Referred(InsertVacant(c, e.key, v, allocOk), e.key)

\* remove_entry detaches the element of an Occupied Entry and hands it back.
CCC_private_remove_entry(c, e) ==
    IF e.occupied
    THEN [c |-> [c EXCEPT !.elems = Detach(c, e.key)], entry |-> e]
    ELSE [c |-> c, entry |-> e]

\* The forwarding macros with a neighbouring expansion.
CCC_or_insert_as_insert_entry(c, e, v, allocOk) == CCC_private_insert_entry(c, e, v, allocOk)

\* and_modify that calls fn without asking whether the Entry is Occupied.
CCC_and_modify_unchecked(c, e, fn) ==
    [c |-> c, entry |-> Occupied(e.key, fn[1]), called |-> TRUE]

CCC_handle(c, k) == CCC_private_handle(c, k)

CCC_and_modify(c, e, fn) == CCC_private_and_modify(c, e, fn)

CCC_and_context_modify(c, e, fn, context) ==
    CCC_private_and_context_modify(c, e, fn, context)

CCC_insert_entry(c, e, v, allocOk) == CCC_private_insert_entry(c, e, v, allocOk)

CCC_or_insert(c, e, v, allocOk) == CCC_private_or_insert(c, e, v, allocOk)

CCC_remove_entry(c, e) == CCC_private_remove_entry(c, e)

\* One container, ordered or not, dynamic or over a fixed buffer.
EntryInit ==
    /\ \E o \in BOOLEAN, d \in BOOLEAN :
        cont = [i \in Ids |-> IF i = "a" THEN Container(o, d, i) ELSE Prefilled({}, i)]
    /\ res = NoResult
    /\ reserved = [i \in Ids |-> 0]
    /\ range = NoRange

\* A call of the Entry interface: the Entry it yields or passes on, whether
\* the modification function ran, the reference a terminal call returns, and
\* the call that came before it.
Chained(op, id, k, v, fn, c, e, called, out) ==
    /\ cont' = Written(id, c)
    /\ res' = [op |-> op, id |-> id, key |-> k, arg |-> v, fn |-> fn,
               entry |-> e, called |-> called, out |-> out, from |-> res.op]
    /\ UNCHANGED <<reserved, range>>

Entry(id, k) ==
    Chained("entry", id, k, 0, <<>>, cont[id], CCC_entry(cont[id], k), FALSE, NULL)

Handle(id, k) ==
    Chained("handle", id, k, 0, <<>>, cont[id], CCC_handle(cont[id], k), FALSE, NULL)

\* The Entry in hand: the one the previous call on this container yielded.
Pending(id) ==
    /\ res.op \in {"entry", "and_modify", "and_context_modify"}
    /\ res.id = id

AndModify(id, fn) ==
    /\ Pending(id)
    /\ Chained("and_modify", id, res.key, 0, fn,
               CCC_and_modify(cont[id], res.entry, fn).c,
               CCC_and_modify(cont[id], res.entry, fn).entry,
               CCC_and_modify(cont[id], res.entry, fn).called, NULL)

AndContextModify(id, fn, context) ==
    /\ Pending(id)
    /\ Chained("and_context_modify", id, res.key, context, fn,
               CCC_and_context_modify(cont[id], res.entry, fn, context).c,
               CCC_and_context_modify(cont[id], res.entry, fn, context).entry,
               CCC_and_context_modify(cont[id], res.entry, fn, context).called, NULL)

OrInsert(id, v, allocOk) ==
    /\ Pending(id)
    /\ Allocates(cont[id], allocOk)
    /\ Chained("or_insert", id, res.key, v, <<>>,
               CCC_or_insert(cont[id], res.entry, v, allocOk).c, res.entry, FALSE,
               CCC_or_insert(cont[id], res.entry, v, allocOk).out)

InsertEntry(id, v, allocOk) ==
    /\ Pending(id)
    /\ Allocates(cont[id], allocOk)
    /\ Chained("insert_entry", id, res.key, v, <<>>,
               CCC_insert_entry(cont[id], res.entry, v, allocOk).c, res.entry, FALSE,
               CCC_insert_entry(cont[id], res.entry, v, allocOk).out)

RemoveEntry(id) ==
    /\ Pending(id)
    /\ Chained("remove_entry", id, res.key, 0, <<>>,
               CCC_remove_entry(cont[id], res.entry).c,
               CCC_remove_entry(cont[id], res.entry).entry, FALSE, NULL)

\* The Handle for k in the container an operation on c left: an Occupied
\* Handle refers to the element by its position, and the value k held in c,
\* if any, goes to the caller next to it.
Handled(c, r, k) ==
    [c |-> r.c,
     entry |-> IF r.entry.occupied THEN Occupied(k, Find(r.c, k)) ELSE r.entry,
     realloc |-> r.realloc,
     old |-> CCC_private_get_key_value(c, k)]

\* The _wrap forms hand the same Entry or Handle back by reference.
CCC_private_swap_entry_wrap(c, k, v, allocOk) == CCC_private_swap_entry(c, k, v, allocOk)

CCC_private_swap_handle(c, k, v, allocOk) ==
    Handled(c, CCC_private_swap_entry(c, k, v, allocOk), k)

CCC_private_swap_handle_wrap(c, k, v, allocOk) == CCC_private_swap_handle(c, k, v, allocOk)

CCC_private_try_insert_wrap(c, k, v, allocOk) == CCC_private_try_insert(c, k, v, allocOk)

CCC_private_insert_or_assign_wrap(c, k, v, allocOk) ==
    CCC_private_insert_or_assign(c, k, v, allocOk)

CCC_private_remove_key_value_wrap(c, k) == CCC_private_remove_key_value(c, k)

\* The Handle calls act on the container as the Entry calls do; the
\* reference a terminal call returns is a position already.
CCC_private_insert_handle(c, h, v, allocOk) == CCC_private_insert_entry(c, h, v, allocOk)

CCC_private_remove_entry_wrap(c, e) == CCC_private_remove_entry(c, e)

CCC_private_remove_handle(c, h) == CCC_private_remove_entry(c, h)

CCC_private_remove_handle_wrap(c, h) == CCC_private_remove_handle(c, h)

CCC_swap_entry_wrap(c, k, v, allocOk) == CCC_private_swap_entry_wrap(c, k, v, allocOk)

CCC_swap_handle(c, k, v, allocOk) == CCC_private_swap_handle(c, k, v, allocOk)

CCC_swap_handle_wrap(c, k, v, allocOk) == CCC_private_swap_handle_wrap(c, k, v, allocOk)

CCC_try_insert_wrap(c, k, v, allocOk) == CCC_private_try_insert_wrap(c, k, v, allocOk)

CCC_insert_or_assign_wrap(c, k, v, allocOk) ==
    CCC_private_insert_or_assign_wrap(c, k, v, allocOk)

CCC_remove_key_value_wrap(c, k) == CCC_private_remove_key_value_wrap(c, k)

CCC_insert_handle(c, h, v, allocOk) == CCC_private_insert_handle(c, h, v, allocOk)

CCC_remove_entry_wrap(c, e) == CCC_private_remove_entry_wrap(c, e)

CCC_remove_handle(c, h) == CCC_private_remove_handle(c, h)

CCC_remove_handle_wrap(c, h) == CCC_private_remove_handle_wrap(c, h)

SwapEntryWrap(id, k, v, allocOk) ==
    /\ Allocates(cont[id], allocOk)
    /\ Keyed("swap_entry_wrap", id, k, v, CCC_swap_entry_wrap(cont[id], k, v, allocOk))

\* A keyed call that yields a Handle and, next to it, the old value.
KeyedHandle(op, id, k, v, r) ==
    /\ cont' = Written(id, r.c)
    /\ res' = [op |-> op, id |-> id, key |-> k, arg |-> v, entry |-> r.entry,
               old |-> r.old, realloc |-> r.realloc]
    /\ UNCHANGED <<reserved, range>>

SwapHandle(id, k, v, allocOk) ==
    /\ Allocates(cont[id], allocOk)
    /\ KeyedHandle("swap_handle", id, k, v, CCC_swap_handle(cont[id], k, v, allocOk))

SwapHandleWrap(id, k, v, allocOk) ==
    /\ Allocates(cont[id], allocOk)
    /\ KeyedHandle("swap_handle_wrap", id, k, v,
                   CCC_swap_handle_wrap(cont[id], k, v, allocOk))

TryInsertWrap(id, k, v, allocOk) ==
    /\ Allocates(cont[id], allocOk)
    /\ Keyed("try_insert_wrap", id, k, v, CCC_try_insert_wrap(cont[id], k, v, allocOk))

InsertOrAssignWrap(id, k, v, allocOk) ==
    /\ Allocates(cont[id], allocOk)
    /\ Keyed("insert_or_assign_wrap", id, k, v,
             CCC_insert_or_assign_wrap(cont[id], k, v, allocOk))

RemoveKeyValueWrap(id, k) ==
    Keyed("remove_key_value_wrap", id, k, 0, CCC_remove_key_value_wrap(cont[id], k))

\* The Handle in hand: the one the previous call on this container yielded.
InsertHandle(id, v, allocOk) ==
    /\ res.op = "handle"
    /\ res.id = id
    /\ Allocates(cont[id], allocOk)
    /\ Chained("insert_handle", id, res.key, v, <<>>,
               CCC_insert_handle(cont[id], res.entry, v, allocOk).c, res.entry, FALSE,
               CCC_insert_handle(cont[id], res.entry, v, allocOk).out)

RemoveEntryWrap(id) ==
    /\ Pending(id)
    /\ Chained("remove_entry_wrap", id, res.key, 0, <<>>,
               CCC_remove_entry_wrap(cont[id], res.entry).c,
               CCC_remove_entry_wrap(cont[id], res.entry).entry, FALSE, NULL)

RemoveHandle(id) ==
    /\ res.op = "handle"
    /\ res.id = id
    /\ Chained("remove_handle", id, res.key, 0, <<>>,
               CCC_remove_handle(cont[id], res.entry).c,
               CCC_remove_handle(cont[id], res.entry).entry, FALSE, NULL)

RemoveHandleWrap(id) ==
    /\ res.op = "handle"
    /\ res.id = id
    /\ Chained("remove_handle_wrap", id, res.key, 0, <<>>,
               CCC_remove_handle_wrap(cont[id], res.entry).c,
               CCC_remove_handle_wrap(cont[id], res.entry).entry, FALSE, NULL)

EntryNext ==
    \/ \E k \in Keys : Entry("a", k)
    \/ \E k \in Keys : Handle("a", k)
    \/ AndModify("a", Bump)
    \/ \E context \in Vals : AndContextModify("a", Store, context)
    \/ \E v \in Vals, allocOk \in BOOLEAN : OrInsert("a", v, allocOk)
    \/ \E v \in Vals, allocOk \in BOOLEAN : InsertEntry("a", v, allocOk)
    \/ RemoveEntry("a")
    \/ \E k \in Keys, v \in Vals, allocOk \in BOOLEAN : SwapEntry("a", k, v, allocOk)
    \/ \E k \in Keys, v \in Vals, allocOk \in BOOLEAN : TryInsert("a", k, v, allocOk)
    \/ \E k \in Keys, v \in Vals, allocOk \in BOOLEAN : InsertOrAssign("a", k, v, allocOk)
    \/ \E k \in Keys : RemoveKeyValue("a", k)
    \/ \E k \in Keys, v \in Vals, allocOk \in BOOLEAN : SwapEntryWrap("a", k, v, allocOk)
    \/ \E k \in Keys, v \in Vals, allocOk \in BOOLEAN : SwapHandle("a", k, v, allocOk)
    \/ \E k \in Keys, v \in Vals, allocOk \in BOOLEAN : SwapHandleWrap("a", k, v, allocOk)
    \/ \E k \in Keys, v \in Vals, allocOk \in BOOLEAN : TryInsertWrap("a", k, v, allocOk)
    \/ \E k \in Keys, v \in Vals, allocOk \in BOOLEAN : InsertOrAssignWrap("a", k, v, allocOk)
    \/ \E k \in Keys : RemoveKeyValueWrap("a", k)
    \/ \E v \in Vals, allocOk \in BOOLEAN : InsertHandle("a", v, allocOk)
    \/ RemoveEntryWrap("a")
    \/ RemoveHandle("a")
    \/ RemoveHandleWrap("a")

EntrySpec == EntryInit /\ [][EntryNext]_vars

\* The operations that hand back an Entry or a Handle.
YieldsEntry ==
    {"entry", "handle", "and_modify", "and_context_modify", "remove_entry",
     "swap_entry", "try_insert", "insert_or_assign", "remove_key_value",
     "swap_entry_wrap", "swap_handle", "swap_handle_wrap", "try_insert_wrap",
     "insert_or_assign_wrap", "remove_key_value_wrap", "remove_entry_wrap",
     "remove_handle", "remove_handle_wrap"}

\* C16: every Entry or Handle an operation hands back is Occupied or Vacant
\* and never both; insert_error is true only of a Vacant one; unwrap yields
\* a reference exactly when it is Occupied and NULL when it is Vacant, with
\* or without the insert error; and the Entry or Handle of a query for k is
\* Occupied exactly when the container holds k, unwrapping to the element
\* held.
C16_OccupiedOrVacant ==
    [][res'.op \in YieldsEntry
       => /\ CCC_occupied(res'.entry) \in BOOLEAN
          /\ CCC_insert_error(res'.entry) => ~CCC_occupied(res'.entry)
          /\ CCC_occupied(res'.entry) <=> (CCC_unwrap(res'.entry) # NULL)
          /\ res'.op \in {"entry", "handle"}
             => /\ CCC_occupied(res'.entry) <=> CCC_contains(Before, res'.key)
                /\ After = Before
          /\ (res'.op = "entry" /\ CCC_occupied(res'.entry))
             => CCC_unwrap(res'.entry) = CCC_get_key_value(Before, res'.key)
          /\ (res'.op = "handle" /\ CCC_occupied(res'.entry))
             => Before.elems[CCC_unwrap(res'.entry)].key = res'.key]_vars

\* A query met a held key and yielded an Occupied Entry.
C16_Witness ==
    /\ res.op = "entry"
    /\ CCC_occupied(res.entry)
    /\ CCC_contains(cont["a"], res.key)
    /\ CCC_unwrap(res.entry) # NULL

\* An insertion failed and yielded a Vacant Entry with the insert error,
\* which unwraps to NULL.
C16_VacantWithError ==
    /\ res.op \in InsertOps
    /\ ~CCC_occupied(res.entry)
    /\ CCC_insert_error(res.entry)
    /\ CCC_unwrap(res.entry) = NULL

\* A reference handed back refers to the element of key k holding v.
RefersTo(c, at, k, v) == at \in DOMAIN c.elems /\ c.elems[at] = [key |-> k, val |-> v]

\* or_insert on an Occupied Entry.
OrInsertOccupied ==
    /\ After = Before
    /\ RefersTo(After, res'.out, res'.key, CCC_get_key_value(Before, res'.key))

\* or_insert on a Vacant Entry that inserted.
OrInsertInserted ==
    /\ CCC_contains(After, res'.key)
    /\ CCC_get_key_value(After, res'.key) = res'.arg
    /\ RefersTo(After, res'.out, res'.key, res'.arg)
    /\ SameOn(Before, After, Keys \ {res'.key})
    /\ Count(After) = Count(Before) + 1

\* C17 as stated: or_insert on a Vacant Entry for k inserts the value, so
\* that k is present with it and the reference returned is to the new
\* element; on an Occupied Entry it leaves the container unchanged and
\* returns the reference to the existing element.
C17_AsStated ==
    [][res'.op = "or_insert"
       => IF CCC_occupied(res'.entry) THEN OrInsertOccupied ELSE OrInsertInserted]_vars

\* C17: or_insert on a Vacant Entry for k inserts the value, so that k is
\* present with it and the reference returned is to the new element, unless
\* the insertion cannot obtain storage (a full fixed container, a failed
\* allocation): then it returns NULL and the container is unchanged.  On an
\* Occupied Entry it leaves the container unchanged and returns the
\* reference to the existing element.
C17_OrInsert ==
    [][res'.op = "or_insert"
       => IF CCC_occupied(res'.entry)
          THEN OrInsertOccupied
          ELSE IF res'.out # NULL
               THEN OrInsertInserted
               ELSE /\ After = Before
                    /\ Count(Before) >= Before.capacity]_vars

\* or_insert inserted the value 2 for a key the Entry found absent.
C17_Witness ==
    /\ res.op = "or_insert"
    /\ ~CCC_occupied(res.entry)
    /\ res.arg = 2
    /\ RefersTo(cont["a"], res.out, res.key, 2)

\* or_insert met an Occupied Entry holding another value than the supplied.
C17_Occupied ==
    /\ res.op = "or_insert"
    /\ CCC_occupied(res.entry)
    /\ res.out # NULL
    /\ cont["a"].elems[res.out].val # res.arg

ModifyOps == {"and_modify", "and_context_modify"}

\* The value the modification function makes of v in the call recorded in r.
Modified(r, v) == IF r.op = "and_modify" THEN r.fn[v] ELSE r.fn[<<v, r.arg>>]

\* and_modify or and_context_modify on an Occupied Entry called the function
\* and the element holds what the function made of its value.
ModifiedInPlace ==
    /\ res'.called
    /\ CCC_occupied(res'.entry)
    /\ CCC_unwrap(res'.entry) = Modified(res', CCC_unwrap(res.entry))
    /\ CCC_get_key_value(After, res'.key) = Modified(res', CCC_unwrap(res.entry))
    /\ SameOn(Before, After, Keys \ {res'.key})
    /\ Count(After) = Count(Before)

\* and_modify or and_context_modify on a Vacant Entry did nothing.
NotModified ==
    /\ ~res'.called
    /\ After = Before
    /\ res'.entry = res.entry

\* An or_insert applied to the Vacant Entry a modify call handed back.
OrInsertAfterModify ==
    /\ res'.op = "or_insert"
    /\ res'.from \in ModifyOps
    /\ ~CCC_occupied(res.entry)

\* C18 as stated: and_modify and and_context_modify call the modification
\* function only on an Occupied Entry and hand back the modified Entry; on a
\* Vacant Entry the function is not called, the container is unchanged and
\* the Vacant Entry passed in is handed back, so that an or_insert that
\* follows inserts.
C18_AsStated ==
    [][/\ res'.op \in ModifyOps
          => IF CCC_occupied(res.entry) THEN ModifiedInPlace ELSE NotModified
       /\ OrInsertAfterModify => OrInsertInserted]_vars

\* C18: and_modify and and_context_modify call the modification function
\* only on an Occupied Entry: the element then holds the modified value, and
\* the Entry handed back is Occupied with it.  On a Vacant Entry nothing
\* happens: the function is not called, the container is unchanged and the
\* Entry handed back is the Vacant one passed in.  An or_insert that follows
\* acts on the Vacant Entry a query would give and inserts, unless the
\* insertion cannot obtain storage (a full fixed container, a failed
\* allocation): then it returns NULL and the container is unchanged.  It
\* always inserts while the storage has a free slot.
C18_AndModify ==
    [][/\ res'.op \in ModifyOps
          => IF CCC_occupied(res.entry) THEN ModifiedInPlace ELSE NotModified
       /\ OrInsertAfterModify
          => /\ res'.entry = CCC_entry(Before, res'.key)
             /\ ~CCC_contains(Before, res'.key)
             /\ IF res'.out # NULL
                THEN OrInsertInserted
                ELSE After = Before /\ Count(Before) >= Before.capacity
             /\ Count(Before) < Before.capacity => res'.out # NULL]_vars

\* and_modify met a Vacant Entry: the function was not called and the
\* Entry handed back is Vacant for the key, which the container lacks.
C18_Witness ==
    /\ res.op = "and_modify"
    /\ ~res.called
    /\ ~CCC_occupied(res.entry)
    /\ ~CCC_contains(cont["a"], res.key)

\* The or_insert that followed an and_modify on a Vacant Entry found no
\* storage: it handed back NULL and the key is still absent.
C18_ThenRefused ==
    /\ res.op = "or_insert"
    /\ res.from \in ModifyOps
    /\ ~CCC_occupied(res.entry)
    /\ res.out = NULL
    /\ ~CCC_contains(cont["a"], res.key)

\* The or_insert that followed an and_modify on a Vacant Entry inserted.
C18_ThenInserted ==
    /\ res.op = "or_insert"
    /\ res.from \in ModifyOps
    /\ ~CCC_occupied(res.entry)
    /\ res.out # NULL
    /\ CCC_get_key_value(cont["a"], res.key) = res.arg

\* and_modify met an Occupied Entry and modified the element.
C18_Modified ==
    /\ res.op = "and_modify"
    /\ res.called
    /\ CCC_occupied(res.entry)
    /\ CCC_get_key_value(cont["a"], res.key) = CCC_unwrap(res.entry)

(***************************************************************************)
(* Traversal: a caller takes a cursor from begin (reverse_begin) and       *)
(* advances it with next (reverse_next) until it equals end (reverse_end), *)
(* visiting the element under the cursor at each step.                     *)
(***************************************************************************)
\* A reverse traversal that starts one element short of the last.
CCC_private_reverse_begin_short(c) ==
    IF Count(c) = 0 THEN CCC_private_reverse_end(c) ELSE Count(c) - 1

\* The reverse traversal starts at the last element in iteration order.
CCC_private_reverse_begin(c) == IF Count(c) = 0 THEN CCC_private_reverse_end(c) ELSE Count(c)

CCC_reverse_begin(c) == CCC_private_reverse_begin(c)

\* The keys the prefilled peer may hold.
IterKeys == 1..(2 * MaxKey)

\* "a" is filled by insertions, in sorted or in the backend's own order; its
\* peer "b" already holds elements.
IterInit ==
    /\ \E o \in BOOLEAN, S \in SUBSET IterKeys :
        cont = [i \in Ids |-> IF i = "a" THEN Container(o, TRUE, i) ELSE Prefilled(S, i)]
    /\ res = NoResult
    /\ reserved = [i \in Ids |-> 0]
    /\ range = NoRange

\* A traversal in progress: the cursor and the keys visited so far.
Visiting(op, id, cur, seen) ==
    /\ res' = [op |-> op, id |-> id, cur |-> cur, seen |-> seen]
    /\ UNCHANGED <<cont, reserved, range>>

Begin(id) == Visiting("begin", id, CCC_begin(cont[id]), <<>>)

ReverseBegin(id) == Visiting("reverse_begin", id, CCC_reverse_begin(cont[id]), <<>>)

IterNext(id) ==
    /\ res.op \in {"begin", "next"}
    /\ res.id = id
    /\ res.cur # CCC_end(cont[id])
    /\ Visiting("next", id, CCC_next(cont[id], res.cur),
                Append(res.seen, cont[id].elems[res.cur].key))

ReverseNext(id) ==
    /\ res.op \in {"reverse_begin", "reverse_next"}
    /\ res.id = id
    /\ res.cur # CCC_reverse_end(cont[id])
    /\ Visiting("reverse_next", id, CCC_reverse_next(cont[id], res.cur),
                Append(res.seen, cont[id].elems[res.cur].key))

TraverseNext ==
    \/ \E k \in Keys, allocOk \in BOOLEAN : InsertOrAssign("a", k, 1, allocOk)
    \/ \E k \in Keys : RemoveKeyValue("a", k)
    \/ \E id \in Ids : Begin(id)
    \/ \E id \in Ids : ReverseBegin(id)
    \/ \E id \in Ids : IterNext(id)
    \/ \E id \in Ids : ReverseNext(id)

TraverseSpec == IterInit /\ [][TraverseNext]_vars

\* The traversal recorded in res has reached its end sentinel.
ForwardDone ==
    /\ res.op \in {"begin", "next"}
    /\ res.cur = CCC_end(cont[res.id])

ReverseDone ==
    /\ res.op \in {"reverse_begin", "reverse_next"}
    /\ res.cur = CCC_reverse_end(cont[res.id])

\* Every key of q occurs in it once.
EachOnce(q) == \A i \in DOMAIN q, j \in DOMAIN q : q[i] = q[j] => i = j

\* C19: a traversal with reverse_begin / reverse_next up to reverse_end
\* visits exactly the elements a traversal with begin / next up to end
\* visits, each once, in exactly the opposite order, and both visit exactly
\* count elements.
C19_ReverseTraversal ==
    /\ ForwardDone
       => /\ res.seen = Traverse(cont[res.id])
          /\ Image(res.seen) = KeySet(cont[res.id])
          /\ EachOnce(res.seen)
          /\ Len(res.seen) = CCC_count(cont[res.id]).count
    /\ ReverseDone
       => /\ res.seen = Reversed(Traverse(cont[res.id]))
          /\ Image(res.seen) = KeySet(cont[res.id])
          /\ EachOnce(res.seen)
          /\ Len(res.seen) = CCC_count(cont[res.id]).count

\* A reverse traversal of an unordered container holding 2 then 1 has
\* visited 1 then 2.
C19_Witness ==
    /\ ReverseDone
    /\ ~cont[res.id].ordered
    /\ Traverse(cont[res.id]) = <<2, 1>>
    /\ res.seen = <<1, 2>>

\* A forward and a reverse traversal of four elements.
C19_Forward ==
    /\ ForwardDone
    /\ res.seen = <<1, 2, 3, 4>>

====
